---- MODULE Spec2Model ----
(***************************************************************************)
(* Model of supabase/generate_supabase_setup.py: thirteen SQL files are    *)
(* loaded, five textual patch rules rewrite four of them, the entries are  *)
(* assembled between BEGIN/END banners, runs of blank lines are collapsed  *)
(* and the result is written to one output file.                           *)
(*                                                                         *)
(* A text is a sequence of tokens.  Every token IS the piece of text it    *)
(* stands for (a TLA+ string), and the text a sequence denotes is the      *)
(* concatenation of its tokens.  The alphabet is chosen so that every      *)
(* literal the script searches for ("\n\n\n", a marker substring, a regex  *)
(* anchor) is a sequence of whole tokens and cannot straddle a token       *)
(* boundary, so that the character-level searches of the script are        *)
(* token-level searches here.                                              *)
(***************************************************************************)
EXTENDS Integers, Sequences, FiniteSets, TLC

\* ------------------------------------------------------------------ tokens
NL == "\n"
CR == "\r"
SP == " "
TAB == "\t"
SEMI == ";"
BAR == "-- ============================================"
GT == "-- >>>>>>>>>>>>>>>>>>>>>>>>>>>>>>>>>>>>>>>>>>>>>"
LT == "-- <<<<<<<<<<<<<<<<<<<<<<<<<<<<<<<<<<<<<<<<<<<<<"
HDR2 == "-- Converzia: Supabase Full Setup (single file)"
HDR3 == "-- Generated from converzia-core/migrations + seed"
HDR4 == "-- Fixes: integration enums consolidated; tenant_integrations de-duplicated"
CT == "CREATE TYPE integration_type"
CS == "CREATE TYPE integration_status"
INTG == "-- Integrations"
ALT == "ALTER TABLE tenant_integrations ENABLE ROW LEVEL SECURITY"
ITE == "-- INTEGRATION TYPE ENUM"
TI == "-- TENANT INTEGRATIONS"
WT == "-- WHATSAPP MESSAGE TEMPLATES"
TIC == "-- Tenant Integrations:"
AL == "-- Activity Logs:"
TRGHDR == "-- TRIGGERS: updated_at maintenance"
TRIG1 == "CREATE TRIGGER trg_app_settings_updated_at BEFORE UPDATE ON app_settings FOR EACH ROW EXECUTE FUNCTION update_updated_at()"
TRIG2 == "CREATE TRIGGER trg_whatsapp_templates_updated_at BEFORE UPDATE ON whatsapp_templates FOR EACH ROW EXECUTE FUNCTION update_updated_at()"
DROPTRG == "DROP TRIGGER IF EXISTS trg_app_settings_updated_at ON app_settings"

\* The characters str.strip() and str.rstrip() remove (those of the alphabet).
Whitespace == {NL, CR, SP, TAB}

\* The tokens that contain the substring "trg_app_settings_updated_at".
TriggerMarkerTokens == {TRIG1, DROPTRG}

\* The tokens that contain the substring "CREATE TYPE integration_type".
EnumMarkerTokens == {CT}

\* ------------------------------------------------------------------ FILES
FILES ==
  << [rel |-> "converzia-core/migrations/001_extensions.sql", key |-> "001_extensions"],
     [rel |-> "converzia-core/migrations/002_enums.sql", key |-> "002_enums"],
     [rel |-> "converzia-core/migrations/003_core_tables.sql", key |-> "003_core_tables"],
     [rel |-> "converzia-core/migrations/004_leads_tables.sql", key |-> "004_leads_tables"],
     [rel |-> "converzia-core/migrations/005_billing_tables.sql", key |-> "005_billing_tables"],
     [rel |-> "converzia-core/migrations/006_rag_tables.sql", key |-> "006_rag_tables"],
     [rel |-> "converzia-core/migrations/007_scoring_tables.sql", key |-> "007_scoring_tables"],
     [rel |-> "converzia-core/migrations/008_functions.sql", key |-> "008_functions"],
     [rel |-> "converzia-core/migrations/009_rls_policies.sql", key |-> "009_rls_policies"],
     [rel |-> "converzia-core/migrations/010_views.sql", key |-> "010_views"],
     [rel |-> "converzia-core/migrations/011_app_settings.sql", key |-> "011_app_settings"],
     [rel |-> "converzia-core/migrations/012_integrations_tables.sql", key |-> "012_integrations_tables"],
     [rel |-> "converzia-core/seed/001_initial_seed.sql", key |-> "seed_001_initial_seed"] >>

NFiles == Len(FILES)
Keys == {FILES[n].key : n \in 1..NFiles}
Rels == {FILES[n].rel : n \in 1..NFiles}
RelOf(k) == FILES[CHOOSE n \in 1..NFiles : FILES[n].key = k].rel
KeyOf(r) == FILES[CHOOSE n \in 1..NFiles : FILES[n].rel = r].key

\* The banner lines written by the f-strings f"-- BEGIN: {k}" and f"-- END: {k}".
BeginLine ==
  [k \in Keys |->
     CASE k = "001_extensions" -> "-- BEGIN: 001_extensions"
       [] k = "002_enums" -> "-- BEGIN: 002_enums"
       [] k = "003_core_tables" -> "-- BEGIN: 003_core_tables"
       [] k = "004_leads_tables" -> "-- BEGIN: 004_leads_tables"
       [] k = "005_billing_tables" -> "-- BEGIN: 005_billing_tables"
       [] k = "006_rag_tables" -> "-- BEGIN: 006_rag_tables"
       [] k = "007_scoring_tables" -> "-- BEGIN: 007_scoring_tables"
       [] k = "008_functions" -> "-- BEGIN: 008_functions"
       [] k = "009_rls_policies" -> "-- BEGIN: 009_rls_policies"
       [] k = "010_views" -> "-- BEGIN: 010_views"
       [] k = "011_app_settings" -> "-- BEGIN: 011_app_settings"
       [] k = "012_integrations_tables" -> "-- BEGIN: 012_integrations_tables"
       [] k = "seed_001_initial_seed" -> "-- BEGIN: seed_001_initial_seed"]

EndLine ==
  [k \in Keys |->
     CASE k = "001_extensions" -> "-- END: 001_extensions"
       [] k = "002_enums" -> "-- END: 002_enums"
       [] k = "003_core_tables" -> "-- END: 003_core_tables"
       [] k = "004_leads_tables" -> "-- END: 004_leads_tables"
       [] k = "005_billing_tables" -> "-- END: 005_billing_tables"
       [] k = "006_rag_tables" -> "-- END: 006_rag_tables"
       [] k = "007_scoring_tables" -> "-- END: 007_scoring_tables"
       [] k = "008_functions" -> "-- END: 008_functions"
       [] k = "009_rls_policies" -> "-- END: 009_rls_policies"
       [] k = "010_views" -> "-- END: 010_views"
       [] k = "011_app_settings" -> "-- END: 011_app_settings"
       [] k = "012_integrations_tables" -> "-- END: 012_integrations_tables"
       [] k = "seed_001_initial_seed" -> "-- END: seed_001_initial_seed"]

\* ------------------------------------------------------- string primitives
MinOf(S) == CHOOSE x \in S : \A y \in S : x <= y

\* s[a..b], empty when b < a.
Slice(s, a, b) == [n \in 1..(b - a + 1) |-> s[a + n - 1]]

\* The tokens of s from position a to the end.
From(s, a) == Slice(s, a, Len(s))

\* p occurs in s at position n.
OccursAt(s, p, n) ==
  /\ n >= 1
  /\ n + Len(p) - 1 <= Len(s)
  /\ \A j \in 1..Len(p) : s[n + j - 1] = p[j]

\* The positions at which p occurs in s.
Occurrences(s, p) == {n \in 1..(Len(s) - Len(p) + 1) : OccursAt(s, p, n)}

\* str.find(p, start): the first position >= a at which p occurs, 0 if none.
Find(s, p, a) ==
  LET hits == {n \in a..(Len(s) - Len(p) + 1) : OccursAt(s, p, n)}
  IN IF hits = {} THEN 0 ELSE MinOf(hits)

\* "p in s"
Contains(s, p) == Occurrences(s, p) # {}

\* The occurrences a left-to-right scan takes: from position a on, each the
\* first one that starts at or after the end of the one before (w tokens wide).
RECURSIVE Scan(_, _, _)
Scan(hits, w, a) ==
  LET later == {h \in hits : h >= a}
  IN IF later = {} THEN << >>
     ELSE LET n == MinOf(later) IN <<n>> \o Scan(hits, w, n + w)

\* s[a..] with the w tokens at each position of ms replaced by new.
RECURSIVE Splice(_, _, _, _, _)
Splice(s, ms, w, new, a) ==
  IF ms = << >> THEN From(s, a)
  ELSE Slice(s, a, Head(ms) - 1) \o new \o Splice(s, Tail(ms), w, new, Head(ms) + w)

\* str.replace(old, new): every non-overlapping occurrence, left to right.
Replace(s, old, new) ==
  Splice(s, Scan(Occurrences(s, old), Len(old), 1), Len(old), new, 1)

\* str.rstrip()
RStrip(s) ==
  LET keep == {n \in 1..Len(s) : s[n] \notin Whitespace}
  IN IF keep = {} THEN << >> ELSE Slice(s, 1, CHOOSE n \in keep : \A m \in keep : m <= n)

\* str.lstrip()
LStrip(s) ==
  LET keep == {n \in 1..Len(s) : s[n] \notin Whitespace}
  IN IF keep = {} THEN << >> ELSE From(s, MinOf(keep))

\* A strip() that trims the end only.
StripTrailingOnly(s) == RStrip(s)

\* str.strip()
Strip(s) == LStrip(RStrip(s))

\* ------------------------------------------------------------------ loader
\* Path.read_text(): text mode with universal newlines, which hands "\r\n"
\* and a lone "\r" to the program as "\n".
ReadText(raw) == Replace(Replace(raw, <<CR, NL>>, <<NL>>), <<CR>>, <<NL>>)

\* slurp(rel), given the bytes of the file.
Slurp(raw) == Replace(Replace(ReadText(raw), <<CR, NL>>, <<NL>>), <<CR>>, <<NL>>)

\* content[key] = slurp(rel).strip() + "\n"
LoadEntry(raw) == Strip(Slurp(raw)) \o <<NL>>

\* ------------------------------------------------------------- patch rules
\* "CREATE TYPE integration_type" not in content["002_enums"]
LacksEnumMarker(s) == \A n \in 1..Len(s) : s[n] \notin EnumMarkerTokens

\* A search whose last quantifier is greedy: the match runs to the last ";".
SearchEnumsGreedy(s) ==
  LET tails == {m \in 1..Len(s) : OccursAt(s, <<SEMI, NL, NL, CS>>, m)}
      semis(m) == {b \in (m + 4)..Len(s) : s[b] = SEMI}
      starts == {a \in 1..Len(s) : s[a] = CT /\ \E m \in tails : m > a /\ semis(m) # {}}
  IN IF starts = {} THEN [found |-> FALSE, a |-> 0, b |-> 0]
     ELSE LET a == MinOf(starts)
              m == MinOf({t \in tails : t > a /\ semis(t) # {}})
          IN [found |-> TRUE, a |-> a, b |-> CHOOSE b \in semis(m) : \A c \in semis(m) : c <= b]

\* A search for the first statement alone.
SearchEnumsLoose(s) ==
  LET ends(a) == {b \in (a + 1)..Len(s) : s[b] = SEMI}
      starts == {a \in 1..Len(s) : s[a] = CT /\ ends(a) # {}}
  IN IF starts = {} THEN [found |-> FALSE, a |-> 0, b |-> 0]
     ELSE [found |-> TRUE, a |-> MinOf(starts), b |-> MinOf(ends(MinOf(starts)))]

\* re.search(r"CREATE TYPE integration_type[\s\S]*?;\n\nCREATE TYPE integration_status[\s\S]*?;", s)
\* as [found, a, b]: the leftmost start a, each lazy [\s\S]*? taking the
\* shortest stretch from which the rest of the pattern still matches.
EnumTail == <<SEMI, NL, NL, CS>>
SearchEnums(s) ==
  LET ends(m) == {b \in (m + Len(EnumTail))..Len(s) : s[b] = SEMI}
      mids(a) == {m \in (a + 1)..Len(s) : OccursAt(s, EnumTail, m) /\ ends(m) # {}}
      starts == {a \in 1..Len(s) : s[a] = CT /\ mids(a) # {}}
  IN IF starts = {} THEN [found |-> FALSE, a |-> 0, b |-> 0]
     ELSE LET a == MinOf(starts)
              m == MinOf(mids(a))
          IN [found |-> TRUE, a |-> a, b |-> MinOf(ends(m))]

\* m.group(0)
Group0(s, m) == Slice(s, m.a, m.b)

\* content["002_enums"].rstrip() + "\n\n-- Integrations\n" + m.group(0).strip() + "\n"
AppendEnums(enums, region) ==
  RStrip(enums) \o <<NL, NL, INTG, NL>> \o Strip(region) \o <<NL>>

\* re.sub(r"^ALTER TABLE tenant_integrations ENABLE ROW LEVEL SECURITY;\n", "", s, flags=re.M)
AlterLine == <<ALT, SEMI, NL>>
RECURSIVE RemoveAlterLines(_)
RemoveAlterLines(s) ==
  LET hits == {n \in 1..Len(s) : OccursAt(s, AlterLine, n) /\ (n = 1 \/ s[n - 1] = NL)}
  IN IF hits = {} THEN s
     ELSE LET n == MinOf(hits)
          IN Slice(s, 1, n - 1) \o RemoveAlterLines(From(s, n + Len(AlterLine)))

\* A span removal whose quantifier is greedy: the span runs to the last <end>.
SubSpanGreedy(s, start, end) ==
  LET hits == {n \in 1..Len(s) : OccursAt(s, start, n) /\ Find(s, end, n + Len(start)) # 0}
  IN IF hits = {} THEN s
     ELSE LET a == MinOf(hits)
              ends == {e \in Occurrences(s, end) : e >= a + Len(start)}
              e == CHOOSE x \in ends : \A y \in ends : y <= x
          IN Slice(s, 1, a - 1) \o From(s, e)

\* re.sub(r"(?s)<start>[\s\S]*?<end>", "<end>", s): every non-overlapping
\* leftmost match, the lazy span ending at the first <end> after <start>.
RECURSIVE SubSpan(_, _, _)
SubSpan(s, start, end) ==
  LET hits == {n \in 1..Len(s) : OccursAt(s, start, n) /\ Find(s, end, n + Len(start)) # 0}
  IN IF hits = {} THEN s
     ELSE LET a == MinOf(hits)
              e == Find(s, end, a + Len(start))
          IN Slice(s, 1, a - 1) \o end \o SubSpan(From(s, e + Len(end)), start, end)

TenantBanner == <<BAR, NL, TI>>
WhatsappBanner == <<BAR, NL, WT>>
TenantComment == <<NL, TIC>>
ActivityComment == <<NL, AL>>
EnumBanner == <<BAR, NL, ITE>>

\* first re.sub of rule 3
RemoveTenantTable(s) == SubSpan(s, TenantBanner, WhatsappBanner)

\* second re.sub of rule 3
RemoveTenantPolicies(s) == SubSpan(s, TenantComment, ActivityComment)

\* A rule 4 without its guard.
NoTriggerGuard(s) == TRUE

\* "trg_app_settings_updated_at" not in content["011_app_settings"]
LacksTriggerMarker(s) == \A n \in 1..Len(s) : s[n] \notin TriggerMarkerTokens

TriggerBlock ==
  <<NL, NL, BAR, NL, TRGHDR, NL, BAR, NL, TRIG1, SEMI, NL, TRIG2, SEMI, NL>>

\* content["011_app_settings"].rstrip() + the trigger block
AppendTriggers(s) == RStrip(s) \o TriggerBlock

\* re.sub of the enum block of 012
RemoveEnumBlock(s) == SubSpan(s, EnumBanner, TenantBanner)

\* --------------------------------------------------------------- assembly
Header == <<<<BAR>>, <<HDR2>>, <<HDR3>>, <<HDR4>>, <<BAR, NL>>>>

\* A loop whose closing banner repeats the BEGIN line.
BlockBeginTwice(k, text) ==
  << <<NL, GT>>, <<BeginLine[k]>>, <<GT, NL>>,
     RStrip(text) \o <<NL>>,
     <<LT>>, <<BeginLine[k]>>, <<LT, NL>> >>

\* The six strings the loop appends to out for key k.
Block(k, text) ==
  << <<NL, GT>>, <<BeginLine[k]>>, <<GT, NL>>,
     RStrip(text) \o <<NL>>,
     <<LT>>, <<EndLine[k]>>, <<LT, NL>> >>

\* out after the loop has run over the keys order[1..n].
RECURSIVE OutList(_, _)
OutList(c, n) ==
  IF n = 0 THEN Header ELSE OutList(c, n - 1) \o Block(FILES[n].key, c[FILES[n].key])

\* "\n".join(parts)
RECURSIVE Join(_)
Join(parts) ==
  IF Len(parts) = 0 THEN << >>
  ELSE IF Len(parts) = 1 THEN parts[1]
  ELSE parts[1] \o <<NL>> \o Join(Tail(parts))

TripleNL == <<NL, NL, NL>>
DoubleNL == <<NL, NL>>

\* A loop condition that looks for four newlines.
HasQuadruple(s) == Contains(s, <<NL, NL, NL, NL>>)

\* the loop condition: "\n\n\n" in final
HasTriple(s) == Contains(s, TripleNL)

\* A loop body that collapses every pair of newlines.
CollapsePairs(s) == Replace(s, DoubleNL, <<NL>>)

\* the loop body: final.replace("\n\n\n", "\n\n")
CollapseOnce(s) == Replace(s, TripleNL, DoubleNL)

OutRel == "supabase/supabase_full_setup.sql"

\* ------------------------------------------------------------------ inputs
\* The number of chunks an input file is built from.
MaxSeg == 3

STMT == "CREATE TABLE t (id uuid)"
NOTE == "-- note"
ASENUM == " AS ENUM ('a')"

\* Every concatenation of at most n chunks of the palette P.
RECURSIVE Texts(_, _)
Texts(P, n) ==
  IF n = 0 THEN {<< >>}
  ELSE LET shorter == Texts(P, n - 1)
       IN shorter \cup {t \o c : t \in shorter, c \in P}

EnumStatements == <<CT, ASENUM, SEMI, NL, NL, CS, ASENUM, SEMI, NL, NL>>
StmtLine == <<STMT, SEMI, NL>>

\* 012_integrations_tables.sql: the enum banner, the two enum statements, the
\* tenant banner, another statement, the first enum statement alone.
Palette012 ==
  { EnumBanner \o <<NL, BAR, NL>>, EnumStatements, TenantBanner \o <<NL, BAR, NL>>,
    StmtLine, <<CT, ASENUM, SEMI, NL>> }

\* 011_app_settings.sql
Palette011 ==
  { TenantBanner \o <<NL, BAR, NL>>, WhatsappBanner \o <<NL, BAR, NL>>,
    <<TIC, NL>>, <<AL, NL>>, StmtLine, <<DROPTRG, SEMI, NL>> }

\* 009_rls_policies.sql: the directive on a line of its own, indented, and
\* another statement.
Palette009 == { AlterLine, <<SP>> \o AlterLine, StmtLine }

\* 002_enums.sql
Inputs002 ==
  { <<NOTE, NL>>,
    <<NOTE, NL, SP, NL, NL>>,
    <<NOTE, NL, CT, ASENUM, SEMI, NL>> }

\* The files no rule touches: CRLF and lone-CR line endings, blank lines,
\* blanks, and a line that reads like a banner of the output.
PaletteOther ==
  { <<STMT, SEMI, CR, NL>>, <<NOTE, NL, CR, CR>>, <<NL>>, <<SP>>,
    <<GT, NL, BeginLine["002_enums"], NL, GT, NL, LT, NL, EndLine["002_enums"], NL, LT, NL>> }

Inputs(k) ==
  CASE k = "002_enums" -> Inputs002
    [] k = "009_rls_policies" -> Texts(Palette009, MaxSeg)
    [] k = "011_app_settings" -> Texts(Palette011, MaxSeg)
    [] k = "012_integrations_tables" -> Texts(Palette012, MaxSeg)
    [] OTHER -> Texts(PaletteOther, MaxSeg)

\* The files as the repository is laid out.
Default(k) ==
  CASE k = "002_enums" -> <<NOTE, NL, STMT, SEMI, NL>>
    [] k = "009_rls_policies" -> StmtLine \o AlterLine \o StmtLine
    [] k = "011_app_settings" ->
         StmtLine \o TenantBanner \o <<NL, BAR, NL>> \o StmtLine \o <<NL>>
         \o WhatsappBanner \o <<NL, BAR, NL>> \o StmtLine
         \o <<NL, TIC, NL>> \o StmtLine \o <<NL, AL, NL>> \o StmtLine
    [] k = "012_integrations_tables" ->
         EnumBanner \o <<NL, BAR, NL>> \o EnumStatements
         \o TenantBanner \o <<NL, BAR, NL>> \o StmtLine
    [] OTHER -> <<NOTE, NL>> \o StmtLine

File(t) == [exists |-> TRUE, text |-> t]
NoFile == [exists |-> FALSE, text |-> << >>]
OldOutput == File(<<"-- stale", NL>>)

DefaultFs == [r \in Rels |-> File(Default(KeyOf(r)))]

With(f, k, v) == [f EXCEPT ![RelOf(k)] = v]

\* The untargeted files whose text is varied: the first of the order, one
\* between the patched entries and the last.
VariedOthers == {"001_extensions", "010_views", "seed_001_initial_seed"}

\* The file systems a run starts from with every file in place: the enum
\* source and target varied together, or one other file varied.
EnumFileSystems ==
  {With(With(DefaultFs, "002_enums", File(a)), "012_integrations_tables", File(b)) :
     a \in Inputs002, b \in Inputs("012_integrations_tables")}

OtherFileSystems ==
  UNION {{With(DefaultFs, k, File(t)) : t \in Inputs(k)} :
           k \in VariedOthers \cup {"009_rls_policies", "011_app_settings"}}

\* The file systems with one file missing.
MissingFileSystems == {With(DefaultFs, k, NoFile) : k \in Keys}

\* ------------------------------------------------------------------- state
VARIABLES
  fs,       \* the input files under ROOT: rel -> [exists, text]
  outFile,  \* supabase/supabase_full_setup.sql: [exists, text]
  content,  \* the dict content: key -> text, for the keys loaded so far
  idx,      \* position of the load loop in FILES
  pc,       \* the statement main() is at
  err,      \* the exception that ended the run, "none" while there is none
  final,    \* the local final
  stdout,   \* what print() wrote
  loaded,   \* history: content as the load loop left it
  prev,     \* history: content before the patch statement executed last
  pass,     \* which application of the patch stage is running
  first     \* history: content as the first application of the patch stage left it

vars == <<fs, outFile, content, idx, pc, err, final, stdout, loaded, prev, pass, first>>

Empty == [k \in {} |-> << >>]

Init ==
  /\ \/ fs \in EnumFileSystems \cup MissingFileSystems /\ outFile \in {NoFile, OldOutput}
     \/ fs \in OtherFileSystems /\ outFile = NoFile
  /\ content = Empty
  /\ idx = 1
  /\ pc = "load"
  /\ err = "none"
  /\ final = << >>
  /\ stdout = << >>
  /\ loaded = Empty
  /\ prev = Empty
  /\ pass = 1
  /\ first = Empty

\* ----------------------------------------------------------------- actions
\* A loader that takes a missing file for an empty one.
MissingReadsEmpty(f, rel) == TRUE

\* p.read_text() finds the file (it raises FileNotFoundError otherwise).
FileExists(f, rel) == f[rel].exists

\* One iteration of the load loop whose file exists.
LoadFile ==
  /\ pc = "load"
  /\ idx <= NFiles
  /\ FileExists(fs, FILES[idx].rel)
  /\ content' = (FILES[idx].key :> LoadEntry(fs[FILES[idx].rel].text)) @@ content
  /\ idx' = idx + 1
  /\ pc' = IF idx = NFiles THEN "rule1" ELSE "load"
  /\ loaded' = IF idx = NFiles THEN content' ELSE loaded
  /\ UNCHANGED <<fs, outFile, err, final, stdout, prev, pass, first>>

\* One iteration of the load loop whose file is missing: read_text raises.
SlurpRaise ==
  /\ pc = "load"
  /\ idx <= NFiles
  /\ ~FileExists(fs, FILES[idx].rel)
  /\ pc' = "failed"
  /\ err' = "FileNotFoundError"
  /\ UNCHANGED <<fs, outFile, content, idx, final, stdout, loaded, prev, pass, first>>

\* Rule 1 when it does not raise: the enums are appended, or the marker is
\* already there and nothing is done.
Rule1 ==
  /\ pc = "rule1"
  /\ LET enums == content["002_enums"]
         m == SearchEnums(content["012_integrations_tables"])
     IN /\ LacksEnumMarker(enums) => m.found
        /\ content' =
             IF LacksEnumMarker(enums)
             THEN [content EXCEPT !["002_enums"] =
                     AppendEnums(enums, Group0(content["012_integrations_tables"], m))]
             ELSE content
  /\ prev' = content
  /\ pc' = "rule2"
  /\ UNCHANGED <<fs, outFile, idx, err, final, stdout, loaded, pass, first>>

\* Rule 1 when the search finds nothing: RuntimeError.
Rule1Raise ==
  /\ pc = "rule1"
  /\ LacksEnumMarker(content["002_enums"])
  /\ ~SearchEnums(content["012_integrations_tables"]).found
  /\ pc' = "failed"
  /\ err' = "RuntimeError"
  /\ UNCHANGED <<fs, outFile, content, idx, final, stdout, loaded, prev, pass, first>>

\* One patch statement that rewrites the entry k with f and goes on to next.
Patch(at, k, new, next) ==
  /\ pc = at
  /\ content' = [content EXCEPT ![k] = new]
  /\ prev' = content
  /\ pc' = next
  /\ UNCHANGED <<fs, outFile, idx, err, final, stdout, loaded, pass, first>>

Rule2 ==
  Patch("rule2", "009_rls_policies", RemoveAlterLines(content["009_rls_policies"]), "rule3a")

Rule3a ==
  Patch("rule3a", "011_app_settings", RemoveTenantTable(content["011_app_settings"]), "rule3b")

Rule3b ==
  Patch("rule3b", "011_app_settings", RemoveTenantPolicies(content["011_app_settings"]), "rule4")

Rule4 ==
  Patch("rule4", "011_app_settings",
        IF LacksTriggerMarker(content["011_app_settings"])
        THEN AppendTriggers(content["011_app_settings"])
        ELSE content["011_app_settings"],
        "rule5")

Rule5 ==
  Patch("rule5", "012_integrations_tables",
        RemoveEnumBlock(content["012_integrations_tables"]), "assemble")

\* The header, the loop over order, and the join.
Assemble ==
  /\ pc = "assemble"
  /\ pass = 1
  /\ final' = Join(OutList(content, NFiles))
  /\ pc' = "collapse"
  /\ UNCHANGED <<fs, outFile, content, idx, err, stdout, loaded, prev, pass, first>>

\* One test of the while loop, and one run of its body when the test holds.
Collapse ==
  /\ pc = "collapse"
  /\ IF HasTriple(final)
     THEN final' = CollapseOnce(final) /\ pc' = "collapse"
     ELSE final' = final /\ pc' = "write"
  /\ UNCHANGED <<fs, outFile, content, idx, err, stdout, loaded, prev, pass, first>>

\* out_path.write_text(final) and print(str(out_path)).
Write ==
  /\ pc = "write"
  /\ outFile' = File(final)
  /\ stdout' = <<OutRel>>
  /\ pc' = "done"
  /\ UNCHANGED <<fs, content, idx, err, final, loaded, prev, pass, first>>

Next ==
  \/ LoadFile
  \/ SlurpRaise
  \/ Rule1
  \/ Rule1Raise
  \/ Rule2
  \/ Rule3a
  \/ Rule3b
  \/ Rule4
  \/ Rule5
  \/ Assemble
  \/ Collapse
  \/ Write

Spec == Init /\ [][Next]_vars

\* The patch stage applied a second time to the ContentMap the first
\* application produced.
Reapply ==
  /\ pc = "assemble"
  /\ pass = 1
  /\ pass' = 2
  /\ first' = content
  /\ pc' = "rule1"
  /\ UNCHANGED <<fs, outFile, content, idx, err, final, stdout, loaded, prev>>

NextTwice ==
  \/ LoadFile
  \/ SlurpRaise
  \/ Rule1
  \/ Rule1Raise
  \/ Rule2
  \/ Rule3a
  \/ Rule3b
  \/ Rule4
  \/ Rule5
  \/ Reapply

SpecTwice == Init /\ [][NextTwice]_vars

\* ------------------------------------------------------------ properties
\* Definitions the properties are stated with.  They are written without the
\* operators of the model above, so that a property compares the program
\* with an independent statement of what it should do.

LoadDone == DOMAIN loaded = Keys
RawOf(k) == fs[RelOf(k)].text
IndexOf(k) == CHOOSE n \in 1..NFiles : FILES[n].key = k
SomeFileMissing == \E r \in Rels : ~fs[r].exists
FirstMissing == MinOf({n \in 1..NFiles : ~fs[FILES[n].rel].exists})
OutputUntouched == outFile \in {NoFile, OldOutput} /\ stdout = << >>
HasToken(s, t) == \E n \in 1..Len(s) : s[n] = t
Untargeted ==
  Keys \ {"002_enums", "009_rls_policies", "011_app_settings", "012_integrations_tables"}

\* Every "\r\n" and every lone "\r" turned into "\n".
RECURSIVE EolNormalized(_)
EolNormalized(s) ==
  IF s = << >> THEN << >>
  ELSE IF Head(s) = CR /\ Len(s) > 1 /\ s[2] = NL THEN EolNormalized(Tail(s))
  ELSE IF Head(s) = CR THEN <<NL>> \o EolNormalized(Tail(s))
  ELSE <<Head(s)>> \o EolNormalized(Tail(s))

RECURSIVE TrimRight(_)
TrimRight(s) ==
  IF s = << >> \/ s[Len(s)] \notin Whitespace THEN s
  ELSE TrimRight(SubSeq(s, 1, Len(s) - 1))

RECURSIVE TrimLeft(_)
TrimLeft(s) ==
  IF s = << >> \/ Head(s) \notin Whitespace THEN s ELSE TrimLeft(Tail(s))

\* s with every run of three or more newlines cut down to two.
RECURSIVE SqueezeFrom(_, _)
SqueezeFrom(s, n) ==
  IF n > Len(s) THEN << >>
  ELSE IF n > 2 /\ s[n] = NL /\ s[n - 1] = NL /\ s[n - 2] = NL THEN SqueezeFrom(s, n + 1)
  ELSE <<s[n]>> \o SqueezeFrom(s, n + 1)

Squeeze(s) == SqueezeFrom(s, 1)

ThreeNewlines(s) ==
  \E n \in 1..(Len(s) - 2) : s[n] = NL /\ s[n + 1] = NL /\ s[n + 2] = NL

\* The two-part pattern of rule 1 occurs in s.
EnumPatternIn(s) ==
  \E a \in 1..Len(s) : \E m \in (a + 1)..Len(s) : \E b \in (m + 4)..Len(s) :
    /\ s[a] = CT
    /\ SubSeq(s, m, m + 3) = <<SEMI, NL, NL, CS>>
    /\ s[b] = SEMI

\* C2: if one of the thirteen files is missing, main fails in the load loop
\* with FileNotFoundError, at or before the missing file, before any patch
\* rule runs and before the output file is written: the output file is
\* neither created nor modified.
MissingFileFailsBeforeWrite ==
  SomeFileMissing =>
    /\ pc \in {"load", "failed"}
    /\ idx <= FirstMissing
    /\ pc = "failed" => err = "FileNotFoundError" /\ idx = FirstMissing
    /\ prev = Empty
    /\ OutputUntouched

\* A run that loaded some files, met a missing one and stopped, no output
\* file existing.
MissingFileWitness ==
  /\ pc = "failed"
  /\ err = "FileNotFoundError"
  /\ idx > 1
  /\ outFile = NoFile

\* C3 as claimed: whenever the two-part pattern is not in the 012 entry, the
\* run halts at rule 1 with RuntimeError and writes nothing, whatever the
\* other entries hold.
PatternMissingAlwaysHalts ==
  (LoadDone /\ ~EnumPatternIn(loaded["012_integrations_tables"])) =>
    /\ pc \in {"rule1", "failed"}
    /\ pc = "failed" => err = "RuntimeError"
    /\ OutputUntouched

\* C3 amended: whenever the 002 entry lacks "CREATE TYPE integration_type" and
\* the two-part pattern is not in the 012 entry, the run halts at rule 1 with
\* RuntimeError, no patch applied and no output written.
PatternMissingHaltsWithoutMarker ==
  (/\ LoadDone
   /\ ~HasToken(loaded["002_enums"], CT)
   /\ ~EnumPatternIn(loaded["012_integrations_tables"])) =>
    /\ pc \in {"rule1", "failed"}
    /\ pc = "failed" => err = "RuntimeError"
    /\ content = loaded
    /\ OutputUntouched

\* A run that rule 1 stopped, the first enum statement being in 012 without
\* the second.
PatternMissingWitness ==
  /\ pc = "failed"
  /\ err = "RuntimeError"
  /\ HasToken(loaded["012_integrations_tables"], CT)
  /\ outFile = OldOutput

\* C9 as claimed: the entry stored for a file is its text with "\r\n" and
\* "\r" turned into "\n", trailing whitespace removed and one "\n" appended,
\* the start of the text kept as it is.
LoaderKeepsLeadingText ==
  \A k \in DOMAIN content :
    pc = "load" => content[k] = TrimRight(EolNormalized(RawOf(k))) \o <<NL>>

\* C9 amended: the entry stored for a file is its text with "\r\n" and "\r"
\* turned into "\n", leading and trailing whitespace removed and one "\n"
\* appended.
LoaderStripsBothEnds ==
  /\ \A k \in DOMAIN content :
       pc = "load" => content[k] = TrimLeft(TrimRight(EolNormalized(RawOf(k)))) \o <<NL>>
  /\ \A k \in DOMAIN loaded :
       pc = "rule1" => loaded[k] = TrimLeft(TrimRight(EolNormalized(RawOf(k)))) \o <<NL>>

\* All files loaded, one of them starting with whitespace and holding a "\r".
LoaderWitness ==
  /\ LoadDone
  /\ \E k \in Keys :
       /\ RawOf(k) # << >>
       /\ Head(RawOf(k)) \in Whitespace
       /\ HasToken(RawOf(k), CR)
       /\ Len(loaded[k]) > 1

\* ---------------------------------------------------- the written output
OutText == outFile.text
Written == pc = "done"
BeginBanner(k) == <<GT, NL, BeginLine[k], NL, GT, NL>>
EndBanner(k) == <<LT, NL, EndLine[k], NL, LT, NL>>
BannerLines == {BeginLine[k] : k \in Keys} \cup {EndLine[k] : k \in Keys}
Positions(s, t) == {n \in 1..Len(s) : s[n] = t}
MaxOf(S) == CHOOSE x \in S : \A y \in S : y <= x

\* No input file holds a line that reads like a banner of the output.
CleanInputs == \A k \in Keys : \A n \in 1..Len(loaded[k]) : loaded[k][n] \notin BannerLines

\* The BEGIN and the END line of k occur once each in s.
OneBannerPair(s, k) ==
  Cardinality(Positions(s, BeginLine[k])) = 1 /\ Cardinality(Positions(s, EndLine[k])) = 1

\* The text of s between the BEGIN line and the END line of k.
Section(s, k) ==
  SubSeq(s, MinOf(Positions(s, BeginLine[k])) + 1, MinOf(Positions(s, EndLine[k])) - 1)

\* Rule 1 has appended the enums: 002 came without the marker and rule 1
\* has run without raising.
Relocated ==
  LoadDone /\ ~HasToken(loaded["002_enums"], CT) /\ pc \notin {"rule1", "failed"}

\* The region the regex of rule 1 matches in s (s holds the pattern): from the
\* first "CREATE TYPE integration_type" through the first ";" that follows the
\* first ";\n\nCREATE TYPE integration_status" after it.
RegionStart(s) == MinOf(Positions(s, CT))
RegionMid(s) ==
  MinOf({m \in (RegionStart(s) + 1)..(Len(s) - 4) : SubSeq(s, m, m + 3) = <<SEMI, NL, NL, CS>>})
RegionEnd(s) == MinOf({b \in (RegionMid(s) + 4)..Len(s) : s[b] = SEMI})
MatchedRegion(s) == SubSeq(s, RegionStart(s), RegionEnd(s))

\* The first span from the marker pair start .. end in s, as [found, a, e]:
\* a the start marker, e the first end marker after it.
FirstSpan(s, start, end) ==
  LET ends(a) == {e \in Occurrences(s, end) : e >= a + Len(start)}
      starts == {a \in Occurrences(s, start) : ends(a) # {}}
  IN IF starts = {} THEN [found |-> FALSE, a |-> 0, e |-> 0]
     ELSE [found |-> TRUE, a |-> MinOf(starts), e |-> MinOf(ends(MinOf(starts)))]

\* C1: whenever rule 1 relocates the enum region, the 002_enums section of
\* the written output holds the two statements after a "-- Integrations"
\* comment and the 012_integrations_tables section no longer holds them, for
\* every 012 entry the regex matches.
EnumsMovedOutOf012 ==
  (/\ Written
   /\ Relocated
   /\ OneBannerPair(OutText, "002_enums")
   /\ OneBannerPair(OutText, "012_integrations_tables")) =>
    LET region == MatchedRegion(loaded["012_integrations_tables"])
    IN /\ Contains(Section(OutText, "002_enums"), Squeeze(<<INTG, NL>> \o region))
       /\ ~Contains(Section(OutText, "012_integrations_tables"), Squeeze(region))

\* s holds the text block, which opens with the BEGIN banner of k.
HoldsBlock(s, k, block) ==
  \E b \in Positions(s, BeginLine[k]) : OccursAt(s, block, b - 2)

\* C4 as claimed: the text between the banners of a key no rule targets
\* equals the loaded content exactly (an empty entry leaving its blank line).
UntargetedSectionsVerbatim ==
  Written =>
    \A k \in Untargeted :
      \/ HoldsBlock(OutText, k, BeginBanner(k) \o <<NL>> \o loaded[k] \o <<NL>> \o EndBanner(k))
      \/ loaded[k] = <<NL>> /\ HoldsBlock(OutText, k, BeginBanner(k) \o <<NL>> \o EndBanner(k))

\* C4 amended: between the banners of a key no rule targets the output holds
\* a blank line, the loaded content and a blank line, with every run of three
\* or more newlines of that text cut down to two; it is the loaded content
\* exactly when the content holds no such run.
UntargetedSectionsCollapsed ==
  Written =>
    \A k \in Untargeted :
      /\ HoldsBlock(OutText, k,
                    Squeeze(BeginBanner(k) \o <<NL>> \o loaded[k] \o <<NL>> \o EndBanner(k)))
      /\ (~ThreeNewlines(loaded[k]) /\ loaded[k] # <<NL>>) =>
           HoldsBlock(OutText, k, BeginBanner(k) \o <<NL>> \o loaded[k] \o <<NL>> \o EndBanner(k))

\* A written output one of whose untargeted entries held two blank lines in
\* a row.
CollapsedSectionWitness ==
  /\ Written
  /\ \E k \in Untargeted : ThreeNewlines(loaded[k])

\* The text under the last "-- Integrations" header of the 002 entry.
CopiedEnumText ==
  LET c == content["002_enums"]
  IN SubSeq(c, MaxOf(Positions(c, INTG)) + 2, Len(c) - 1)

\* The text rule 5 deletes from the loaded 012 entry (its first span).
RemovedByRule5 ==
  LET s == loaded["012_integrations_tables"]
      m == FirstSpan(s, <<BAR, NL, ITE>>, <<BAR, NL, TI>>)
  IN IF m.found THEN SubSeq(s, m.a, m.e - 1) ELSE << >>

\* C5 as claimed: after a successful run in which rule 5 removed a region
\* from the 012 entry, the text under the "-- Integrations" header is that
\* region: rule 1 copies what rule 5 deletes.
CopiedIsRemovedRegion ==
  (Written /\ Relocated /\ RemovedByRule5 # << >>) => CopiedEnumText = RemovedByRule5

\* C5 amended: once rule 1 has relocated the enums, the 002 entry is its
\* loaded text, right-trimmed, followed by a blank line, the "-- Integrations"
\* header and the region the regex matched in the loaded 012 entry, byte for
\* byte; the output holds that text with its blank-line runs collapsed; and
\* the region rule 5 deletes (enum banner up to the tenant banner) is another
\* region.
CopiedIsMatchedRegion ==
  Relocated =>
    LET region == MatchedRegion(loaded["012_integrations_tables"])
    IN /\ content["002_enums"] =
            TrimRight(loaded["002_enums"]) \o <<NL, NL, INTG, NL>> \o region \o <<NL>>
       /\ RemovedByRule5 # region
       /\ Written => Contains(OutText, Squeeze(<<NL, NL, INTG, NL>> \o region \o <<NL>>))

\* A written output of a run in which rule 1 copied the enums and rule 5
\* deleted them from 012.
CopiedRegionWitness ==
  /\ Written
  /\ Relocated
  /\ RemovedByRule5 # << >>
  /\ ~HasToken(content["012_integrations_tables"], CT)

\* Each key has one BEGIN and one END banner in s, BEGIN first, no banner
\* line of another key between them.
BannersPaired(s) ==
  \A k \in Keys :
    /\ OneBannerPair(s, k)
    /\ LET b == MinOf(Positions(s, BeginLine[k]))
           e == MinOf(Positions(s, EndLine[k]))
       IN /\ b < e
          /\ \A n \in (b + 1)..(e - 1) : s[n] \notin BannerLines
          /\ OccursAt(s, BeginBanner(k), b - 2)
          /\ OccursAt(s, EndBanner(k), e - 2)

\* C6 as claimed: the banners of the written output are paired, for every
\* content of the input files.
BannersPairedAnyContent == Written => BannersPaired(OutText)

\* C6 amended: the banners of the written output are paired whenever no
\* input file itself holds a BEGIN or END banner line.
BannersPairedCleanInputs == (Written /\ CleanInputs) => BannersPaired(OutText)

\* A written output of input files that hold no banner line, one of them not
\* the repository's.
BannersWitness ==
  /\ Written
  /\ CleanInputs
  /\ fs # DefaultFs
  /\ \A k \in Keys : OneBannerPair(OutText, k)

\* C8: the written text never holds three newlines in a row, and the collapse
\* loop ends: every run of its body makes final shorter.
NoTripleNewline ==
  /\ [](pc \in {"write", "done"} => ~ThreeNewlines(final))
  /\ [](Written => outFile.exists /\ ~ThreeNewlines(OutText))
  /\ [][(pc = "collapse" /\ pc' = "collapse") => Len(final') < Len(final)]_vars

\* A written output of a run one of whose files held blank-line runs.
NoTripleWitness ==
  /\ Written
  /\ \E k \in Keys : ThreeNewlines(loaded[k])
  /\ ~ThreeNewlines(OutText)

\* What a tolerant span removal does to an entry: nothing when no start
\* marker is followed by an end marker; otherwise the text before the first
\* start marker stays, the end marker stands where the start marker stood,
\* and what follows it is the text after the first following end marker,
\* treated in the same way.
RECURSIVE SpanRemoved(_, _, _, _)
SpanRemoved(before, after, start, end) ==
  LET m == FirstSpan(before, start, end)
  IN IF ~m.found THEN after = before
     ELSE /\ Len(after) >= m.a - 1 + Len(end)
          /\ SubSeq(after, 1, m.a - 1) = SubSeq(before, 1, m.a - 1)
          /\ SubSeq(after, m.a, m.a - 1 + Len(end)) = end
          /\ SpanRemoved(SubSeq(before, m.e + Len(end), Len(before)),
                         SubSeq(after, m.a + Len(end), Len(after)), start, end)

\* C10: the removals of rule 3 and rule 5 leave the entry as it was when
\* their marker pair is absent, and otherwise replace only the span from the
\* start marker up to the first following end marker; neither raises: a run
\* fails only before its first patch statement.
TolerantRemovals ==
  /\ pc = "rule3b" =>
       SpanRemoved(prev["011_app_settings"], content["011_app_settings"],
                   <<BAR, NL, TI>>, <<BAR, NL, WT>>)
  /\ pc = "rule4" =>
       SpanRemoved(prev["011_app_settings"], content["011_app_settings"],
                   <<NL, TIC>>, <<NL, AL>>)
  /\ (pc = "assemble" /\ pass = 1) =>
       SpanRemoved(prev["012_integrations_tables"], content["012_integrations_tables"],
                   <<BAR, NL, ITE>>, <<BAR, NL, TI>>)
  /\ pc \in {"rule3b", "rule4", "rule5", "assemble", "collapse", "write", "done"} => err = "none"
  /\ pc = "failed" => prev = Empty
  /\ Written => outFile = File(final)

\* The first removal of rule 3 has just cut a span out of an entry that held
\* two end markers after the start marker.
TolerantWitness ==
  /\ pc = "rule3b"
  /\ content["011_app_settings"] # prev["011_app_settings"]
  /\ Cardinality(Occurrences(prev["011_app_settings"], <<BAR, NL, WT>>)) = 2
  /\ Cardinality(Occurrences(content["011_app_settings"], <<BAR, NL, WT>>)) = 2

\* C7: applied a second time to the ContentMap of a first successful
\* application, the patch stage changes no entry and raises no error: the
\* "-- Integrations" enum block stands once in 002_enums and the trigger
\* block once in 011_app_settings.
PatchStageIdempotent ==
  pass = 2 =>
    /\ content = first
    /\ pc # "failed" /\ err = "none"
    /\ (~HasToken(loaded["002_enums"], CT) /\ ~HasToken(loaded["012_integrations_tables"], INTG)) =>
         Cardinality(Occurrences(content["002_enums"], <<NL, NL, INTG, NL, CT>>)) = 1
    /\ Cardinality(Positions(content["011_app_settings"], TRIG1)) <= 1
    /\ Cardinality(Positions(content["011_app_settings"], TRIG2)) <= 1
    /\ ~HasToken(content["011_app_settings"], DROPTRG) =>
         /\ Cardinality(Positions(content["011_app_settings"], TRIG1)) = 1
         /\ Cardinality(Positions(content["011_app_settings"], TRIG2)) = 1
         /\ Cardinality(Positions(content["011_app_settings"], TRGHDR)) = 1

\* The second application has run to its end on a ContentMap in which the
\* first had appended the enums and the triggers and cut the enum block.
IdempotentWitness ==
  /\ pass = 2
  /\ pc = "assemble"
  /\ ~HasToken(loaded["002_enums"], CT)
  /\ HasToken(content["002_enums"], INTG)
  /\ HasToken(content["011_app_settings"], TRIG1)
  /\ content["011_app_settings"] # loaded["011_app_settings"]
  /\ content["012_integrations_tables"] # loaded["012_integrations_tables"]

====
